---------------------------- MODULE Spec2Model ----------------------------
(***************************************************************************)
(* A model of maud_macros/src/parse.rs: the recursive-descent parser that  *)
(* turns a proc_macro token stream into the Maud AST, and the separate     *)
(* buffer_argument entry point of html_to!.                                *)
(*                                                                         *)
(* Every method of Parser is an operator of the same name that takes the   *)
(* parser (`self`, a record of its two fields) and returns the method's    *)
(* ParseResult together with the parser as the call left it.  Loops of the *)
(* source are RECURSIVE operators carrying the loop's local variables.     *)
(***************************************************************************)
EXTENDS Naturals, Sequences, FiniteSets, TLC

VARIABLES
    input,      \* the TokenStream handed to the entry point under test
    self,       \* the Parser the call works on: [in_attr, input]
    locals,     \* the local variables of the method being stepped
    ret,        \* the value returned by the last completed call
    pc          \* where the caller is

vars == <<input, self, locals, ret, pc>>

-----------------------------------------------------------------------------
(* Option<T> and ParseResult<T>                                            *)

None == <<>>
Some(x) == <<x>>

\* Ok(v), with the parser as the call left it
Ok(v, p) == [ok |-> TRUE, val |-> v, err |-> "", self |-> p]

\* self.error(message): Err(message.into())
error(p, message) == [ok |-> FALSE, val |-> <<>>, err |-> message, self |-> p]

-----------------------------------------------------------------------------
(* proc_macro tokens.  A TokenTree is { kind, span }; kind is one of       *)
(* Term, Op(char, Spacing), Literal, Group(Delimiter, TokenStream).        *)
(* A span is the pair <<first, last>> of the positions it covers.          *)

NoSpan == << <<>>, <<>> >>

Term(t) == [kind |-> "Term", v |-> t, span |-> NoSpan]
Op(c, sp) == [kind |-> "Op", v |-> c, spacing |-> sp, span |-> NoSpan]
\* a literal token; str says whether it lexes as a string literal
Literal(text, str) == [kind |-> "Literal", v |-> text, str |-> str, span |-> NoSpan]
Group(d, ts) == [kind |-> "Group", delim |-> d, stream |-> ts, span |-> NoSpan]

IsTerm(t) == t.kind = "Term"
IsTermNamed(t, s) == t.kind = "Term" /\ t.v = s
IsOp(t, c) == t.kind = "Op" /\ t.v = c
IsJointOp(t, c) == t.kind = "Op" /\ t.v = c /\ t.spacing = "Joint"
IsLiteral(t) == t.kind = "Literal"
IsGroup(t, d) == t.kind = "Group" /\ t.delim = d

\* Span::join: the span from the start of a to the end of b
join(a, b) == <<a[1], b[2]>>

\* LiteralExt::parse_string: the content of a string literal, None otherwise
parse_string(lit) == IF lit.str THEN Some(lit.v) ELSE None

-----------------------------------------------------------------------------
(* The cursor primitives of Parser                                         *)

\* Parser::new
new(ts) == [in_attr |-> FALSE, input |-> ts]

\* with_input that starts the new parser outside any attribute value
with_input_flag_cleared(p, ts) == new(ts)

\* Parser::with_input: a parser over another stream, same in_attr
with_input(p, ts) == [in_attr |-> p.in_attr, input |-> ts]

\* Iterator::next: the token, and the parser advanced past it
next(p) ==
    IF p.input = <<>>
    THEN [tok |-> None, self |-> p]
    ELSE [tok |-> Some(Head(p.input)), self |-> [p EXCEPT !.input = Tail(@)]]

\* Parser::peek
peek(p) == next(p).tok

\* Parser::peek2: Option<(TokenTree, Option<TokenTree>)>
peek2(p) ==
    LET n1 == next(p) IN
    IF n1.tok = None THEN None
    ELSE Some(<<n1.tok[1], next(n1.self).tok>>)

\* Parser::advance
advance(p) == next(p).self

\* Parser::advance2
advance2(p) == next(next(p).self).self

\* Parser::commit: *self = attempt
commit(p, attempt) == attempt


-----------------------------------------------------------------------------
(* Method calls.  self_m(p, ..) is the call self.m(..) on the parser p; it *)
(* goes through `call`, the one recursive operator of the grammar, which   *)
(* runs the method of that name (defined below, under the source's name).  *)

RECURSIVE call(_, _)

self_name(p) == call("name", <<p>>)
self_namespaced_name(p) == call("namespaced_name", <<p>>)
self_attr_toggler(p) == call("attr_toggler", <<p>>)
self_literal(p, lit, span) == call("literal", <<p, lit, span>>)
self_let_expr(p, keyword) == call("let_expr", <<p, keyword>>)
self_markups(p) == call("markups", <<p>>)
self_block(p, body, span) == call("block", <<p, body, span>>)
self_if_expr(p, prefix, segments) == call("if_expr", <<p, prefix, segments>>)
self_else_if_expr(p, segments) == call("else_if_expr", <<p, segments>>)
self_while_expr(p, keyword) == call("while_expr", <<p, keyword>>)
self_for_expr(p, keyword) == call("for_expr", <<p, keyword>>)
self_match_arm(p) == call("match_arm", <<p>>)
self_match_arms(p) == call("match_arms", <<p>>)
self_match_expr(p, keyword) == call("match_expr", <<p, keyword>>)
self_attrs(p) == call("attrs", <<p>>)
self_element(p, nm) == call("element", <<p, nm>>)
self_markup(p) == call("markup", <<p>>)
self_attrs_iteration(p, acc) == call("attrs_iteration", <<p, acc>>)

-----------------------------------------------------------------------------
(* Names                                                                   *)

\* the loop of name(): hyphens, and one identifier after a hyphen
RECURSIVE name_loop(_, _, _)
name_loop(p, result, expect_ident) ==
    LET t == peek(p) IN
    IF t # None /\ IsOp(t[1], "-")
    THEN name_loop(advance(p), Append(result, t[1]), TRUE)
    ELSE IF t # None /\ IsTerm(t[1]) /\ expect_ident
    THEN name_loop(advance(p), Append(result, t[1]), FALSE)
    ELSE Ok(result, p)

\* Parser::name: an identifier, without dealing with namespaces
name(p) ==
    LET t == peek(p) IN
    IF t # None /\ IsTerm(t[1])
    THEN name_loop(advance(p), <<t[1]>>, FALSE)
    ELSE error(p, "expected identifier")

\* Parser::namespaced_name: name, then optionally `:` and a second name
namespaced_name(p) ==
    LET r1 == self_name(p) IN
    IF ~r1.ok THEN r1
    ELSE LET t == peek(r1.self) IN
         IF t # None /\ IsOp(t[1], ":")
         THEN LET r2 == self_name(advance(r1.self)) IN
              IF ~r2.ok THEN r2
              ELSE Ok(r1.val \o <<t[1]>> \o r2.val, r2.self)
         ELSE Ok(r1.val, r1.self)

\* Parser::attr_toggler: the `[cond]` after an empty attribute or a class;
\* the Option<Toggler>, and the parser after it
attr_toggler(p) ==
    LET t == peek(p) IN
    IF t # None /\ IsGroup(t[1], "Bracket")
    THEN [toggler |-> Some([cond |-> t[1].stream, cond_span |-> t[1].span]),
          self |-> advance(p)]
    ELSE [toggler |-> None, self |-> p]

-----------------------------------------------------------------------------
(* Leaves of the grammar                                                   *)

\* Parser::literal
literal(p, lit, span) ==
    LET s == parse_string(lit) IN
    IF s # None
    THEN Ok([type |-> "Literal", content |-> s[1], span |-> span], p)
    ELSE error(p, "expected string")

\* the second loop of let_expr: up to and including the first `;`
RECURSIVE let_expr_loop2(_, _)
let_expr_loop2(p, tokens) ==
    LET n == next(p) IN
    IF n.tok = None THEN error(n.self, "unexpected end of @let expression")
    ELSE IF IsOp(n.tok[1], ";")
    THEN Ok([type |-> "Let", tokens |-> Append(tokens, n.tok[1])], n.self)
    ELSE let_expr_loop2(n.self, Append(tokens, n.tok[1]))

\* the first loop of let_expr: up to and including the first `=`
RECURSIVE let_expr_loop1(_, _)
let_expr_loop1(p, tokens) ==
    LET n == next(p) IN
    IF n.tok = None THEN error(n.self, "unexpected end of @let expression")
    ELSE IF IsOp(n.tok[1], "=")
    THEN let_expr_loop2(n.self, Append(tokens, n.tok[1]))
    ELSE let_expr_loop1(n.self, Append(tokens, n.tok[1]))

\* let_expr that takes the end of the input for the closing `;`
let_expr_open_ended(p, keyword) ==
    LET r == let_expr_loop1(p, <<keyword>>) IN
    IF r.ok THEN r
    ELSE Ok([type |-> "Let", tokens |-> <<keyword>> \o p.input],
            [p EXCEPT !.input = <<>>])

\* Parser::let_expr; the leading `@let` is already consumed
let_expr(p, keyword) == let_expr_loop1(p, <<keyword>>)

-----------------------------------------------------------------------------
(* The recursive grammar                                                   *)

RECURSIVE markups_loop(_, _)
RECURSIVE if_expr_loop(_, _, _)
RECURSIVE while_expr_loop(_, _), for_expr_loop1(_, _), for_expr_loop2(_, _)
RECURSIVE match_expr_loop(_, _), match_arms_loop(_, _)
RECURSIVE match_arm_loop(_, _), match_arm_expr_loop(_, _, _, _)
RECURSIVE attrs_loop(_, _)

\* Parser::markups: the loop over peek2(), with `result` so far
markups_loop(p, result) ==
    LET p2 == peek2(p) IN
    IF p2 = None THEN Ok(result, p)
    ELSE LET first == p2[1][1]
             second == p2[1][2]
         IN
         IF IsOp(first, ";") THEN markups_loop(advance(p), result)
         ELSE IF IsOp(first, "@") /\ second # None /\ IsTermNamed(second[1], "let")
         THEN LET r == self_let_expr(advance2(p), second[1]) IN
              IF r.ok THEN markups_loop(r.self, Append(result, r.val)) ELSE r
         ELSE LET r == self_markup(p) IN
              IF r.ok THEN markups_loop(r.self, Append(result, r.val)) ELSE r

\* Parser::markups
markups(p) == markups_loop(p, <<>>)

\* Parser::block: the group's stream parsed by a parser of its own
block(p, body, span) ==
    LET r == self_markups(with_input(p, body)) IN
    IF r.ok THEN Ok([markups |-> r.val, span |-> span], p)
    ELSE error(p, r.err)

\* Parser::if_expr: the head up to the brace group, its body, then the
\* optional @else; `segments` is the caller's vector, returned extended
if_expr_loop(p, head, segments) ==
    LET n == next(p) IN
    IF n.tok = None THEN error(n.self, "unexpected end of @if expression")
    ELSE IF IsGroup(n.tok[1], "Brace")
    THEN LET b == self_block(n.self, n.tok[1].stream, n.tok[1].span) IN
         IF ~b.ok THEN b
         ELSE self_else_if_expr(n.self, Append(segments, [head |-> head, body |-> b.val]))
    ELSE if_expr_loop(n.self, Append(head, n.tok[1]), segments)

if_expr(p, prefix, segments) == if_expr_loop(p, prefix, segments)

\* else_if_expr with the bare `@else` pushed without its keyword
else_if_expr_without_keyword(p, segments) ==
    LET p2 == peek2(p) IN
    IF p2 # None /\ IsOp(p2[1][1], "@") /\ p2[1][2] # None
       /\ IsTermNamed(p2[1][2][1], "else")
    THEN LET s1 == advance2(p)
             else_keyword == p2[1][2][1]
             t == peek(s1)
         IN
         IF t # None /\ IsTermNamed(t[1], "if")
         THEN self_if_expr(advance(s1), <<else_keyword, t[1]>>, segments)
         ELSE LET n == next(s1) IN
              IF n.tok # None /\ IsGroup(n.tok[1], "Brace")
              THEN LET b == self_block(n.self, n.tok[1].stream, n.tok[1].span) IN
                   IF ~b.ok THEN b
                   ELSE Ok(Append(segments, [head |-> <<>>, body |-> b.val]), n.self)
              ELSE error(n.self, "expected body for @else")
    ELSE Ok(segments, p)

\* Parser::else_if_expr: an optional `@else if` or `@else`
else_if_expr(p, segments) ==
    LET p2 == peek2(p) IN
    IF p2 # None /\ IsOp(p2[1][1], "@") /\ p2[1][2] # None
       /\ IsTermNamed(p2[1][2][1], "else")
    THEN LET s1 == advance2(p)
             else_keyword == p2[1][2][1]
             t == peek(s1)
         IN
         IF t # None /\ IsTermNamed(t[1], "if")
         THEN self_if_expr(advance(s1), <<else_keyword, t[1]>>, segments)
         ELSE LET n == next(s1) IN
              IF n.tok # None /\ IsGroup(n.tok[1], "Brace")
              THEN LET b == self_block(n.self, n.tok[1].stream, n.tok[1].span) IN
                   IF ~b.ok THEN b
                   ELSE Ok(Append(segments, [head |-> <<else_keyword>>, body |-> b.val]),
                           n.self)
              ELSE error(n.self, "expected body for @else")
    ELSE Ok(segments, p)

\* Parser::while_expr
while_expr_loop(p, head) ==
    LET n == next(p) IN
    IF n.tok = None THEN error(n.self, "unexpected end of @while expression")
    ELSE IF IsGroup(n.tok[1], "Brace")
    THEN LET b == self_block(n.self, n.tok[1].stream, n.tok[1].span) IN
         IF ~b.ok THEN b
         ELSE Ok([type |-> "Special", special |-> [head |-> head, body |-> b.val]],
                 n.self)
    ELSE while_expr_loop(n.self, Append(head, n.tok[1]))

\* while_expr pushing its keyword twice
while_expr_keyword_twice(p, keyword) == while_expr_loop(p, <<keyword, keyword>>)

while_expr(p, keyword) == while_expr_loop(p, <<keyword>>)

\* Parser::for_expr, second loop: from after `in` to the brace group
for_expr_loop2(p, head) ==
    LET n == next(p) IN
    IF n.tok = None THEN error(n.self, "unexpected end of @for expression")
    ELSE IF IsGroup(n.tok[1], "Brace")
    THEN LET b == self_block(n.self, n.tok[1].stream, n.tok[1].span) IN
         IF ~b.ok THEN b
         ELSE Ok([type |-> "Special", special |-> [head |-> head, body |-> b.val]],
                 n.self)
    ELSE for_expr_loop2(n.self, Append(head, n.tok[1]))

\* Parser::for_expr, first loop: up to and including the term `in`
for_expr_loop1(p, head) ==
    LET n == next(p) IN
    IF n.tok = None THEN error(n.self, "unexpected end of @for expression")
    ELSE IF IsTermNamed(n.tok[1], "in")
    THEN for_expr_loop2(n.self, Append(head, n.tok[1]))
    ELSE for_expr_loop1(n.self, Append(head, n.tok[1]))

\* for_expr without its first loop: no `in` is looked for
for_expr_in_optional(p, keyword) == for_expr_loop2(p, <<keyword>>)

for_expr(p, keyword) == for_expr_loop1(p, <<keyword>>)

\* match_arm_expr_loop handing the tokens on as one Splice, unparsed
match_arm_expr_loop_as_splice(p, head, body, span) ==
    LET n == next(p) IN
    IF n.tok = None THEN error(n.self, "unexpected end of @match arm")
    ELSE IF IsOp(n.tok[1], ",")
    THEN Ok(Some([head |-> head,
                  body |-> [markups |-> <<[type |-> "Splice", expr |-> body]>>,
                            span |-> span]]), n.self)
    ELSE match_arm_expr_loop(n.self, head, Append(body, n.tok[1]),
                             join(span, n.tok[1].span))

\* Parser::match_arm, `$pat => $expr`: the tokens up to the next `,`
match_arm_expr_loop(p, head, body, span) ==
    LET n == next(p) IN
    IF n.tok = None THEN error(n.self, "unexpected end of @match arm")
    ELSE IF IsOp(n.tok[1], ",")
    THEN LET b == self_block(n.self, body, span) IN
         IF ~b.ok THEN b
         ELSE Ok(Some([head |-> head, body |-> b.val]), n.self)
    ELSE match_arm_expr_loop(n.self, head, Append(body, n.tok[1]),
                             join(span, n.tok[1].span))

\* Parser::match_arm, after the arrow: the body of the arm
match_arm_body(p, head) ==
    LET n == next(p) IN
    IF n.tok = None THEN error(n.self, "unexpected end of @match arm")
    ELSE IF IsGroup(n.tok[1], "Brace")
    THEN LET b == self_block(n.self, n.tok[1].stream, n.tok[1].span) IN
         IF ~b.ok THEN b
         ELSE LET t == peek(n.self)
                  after == IF t # None /\ IsOp(t[1], ",") THEN advance(n.self)
                           ELSE n.self
              IN Ok(Some([head |-> head, body |-> b.val]), after)
    ELSE match_arm_expr_loop(n.self, head, <<n.tok[1]>>, n.tok[1].span)

\* match_arm_loop taking any `=` before a `>` as the arrow, joint or not
match_arm_loop_any_spacing(p, head) ==
    LET p2 == peek2(p) IN
    IF p2 = None
    THEN IF head = <<>> THEN Ok(None, p)
         ELSE error(p, "unexpected end of @match pattern")
    ELSE IF IsOp(p2[1][1], "=") /\ p2[1][2] # None /\ IsOp(p2[1][2][1], ">")
    THEN match_arm_body(advance2(p), head \o <<p2[1][1], p2[1][2][1]>>)
    ELSE match_arm_loop(advance(p), Append(head, p2[1][1]))

\* Parser::match_arm, the pattern: up to a joint `=` directly before `>`
match_arm_loop(p, head) ==
    LET p2 == peek2(p) IN
    IF p2 = None
    THEN IF head = <<>> THEN Ok(None, p)
         ELSE error(p, "unexpected end of @match pattern")
    ELSE IF IsJointOp(p2[1][1], "=") /\ p2[1][2] # None /\ IsOp(p2[1][2][1], ">")
    THEN match_arm_body(advance2(p), head \o <<p2[1][1], p2[1][2][1]>>)
    ELSE match_arm_loop(advance(p), Append(head, p2[1][1]))

\* Parser::match_arm: Ok(Some(arm)), Ok(None) at the end of the arms, or Err
match_arm(p) == match_arm_loop(p, <<>>)

\* Parser::match_arms: while let Some(arm) = self.match_arm()?
match_arms_loop(p, arms) ==
    LET r == self_match_arm(p) IN
    IF ~r.ok THEN r
    ELSE IF r.val = None THEN Ok(arms, r.self)
    ELSE match_arms_loop(r.self, Append(arms, r.val[1]))

match_arms(p) == match_arms_loop(p, <<>>)

\* Parser::match_expr
match_expr_loop(p, head) ==
    LET n == next(p) IN
    IF n.tok = None THEN error(n.self, "unexpected end of @match expression")
    ELSE IF IsGroup(n.tok[1], "Brace")
    THEN LET a == self_match_arms(with_input(n.self, n.tok[1].stream)) IN
         IF ~a.ok THEN error(n.self, a.err)
         ELSE Ok([type |-> "Match", head |-> head, arms |-> a.val,
                  arms_span |-> n.tok[1].span], n.self)
    ELSE match_expr_loop(n.self, Append(head, n.tok[1]))

match_expr(p, keyword) == match_expr_loop(p, <<keyword>>)

-----------------------------------------------------------------------------
(* Elements and their attributes                                           *)

\* the four vectors attrs() starts with
NoAttrs == [classes_static |-> <<>>, classes_toggled |-> <<>>,
            ids |-> <<>>, attrs |-> <<>>]

\* what one pass through the loop of attrs() did: step is "continue",
\* "break" or "return" (an Err left through `?`), form the arm taken
Iteration(step, form, p, acc, err) ==
    [step |-> step, form |-> form, self |-> p, acc |-> acc, err |-> err]

\* Parser::attrs, one iteration of its loop: the attempt on a clone,
\* then the arm chosen by (maybe_name, token_after)
attrs_iteration(p, acc) ==
    LET maybe_name == self_namespaced_name(p)
        n == next(maybe_name.self)
        attempt == n.self
        token_after == n.tok
    IN
    IF maybe_name.ok /\ token_after # None /\ IsOp(token_after[1], "=")
    THEN \* Non-empty attribute
         LET s1 == commit(p, attempt)
             in_attr == s1.in_attr
             value == self_markup([s1 EXCEPT !.in_attr = TRUE])
         IN
         IF ~value.ok THEN Iteration("return", "normal", value.self, acc, value.err)
         ELSE Iteration("continue", "normal",
                  [value.self EXCEPT !.in_attr = in_attr],
                  [acc EXCEPT !.attrs = Append(@,
                      [name |-> maybe_name.val,
                       attr_type |-> [type |-> "Normal", value |-> value.val]])],
                  "")
    ELSE IF maybe_name.ok /\ token_after # None /\ IsOp(token_after[1], "?")
    THEN \* Empty attribute
         LET t == self_attr_toggler(commit(p, attempt)) IN
         Iteration("continue", "empty", t.self,
             [acc EXCEPT !.attrs = Append(@,
                 [name |-> maybe_name.val,
                  attr_type |-> [type |-> "Empty", toggler |-> t.toggler]])],
             "")
    ELSE IF ~maybe_name.ok /\ token_after # None /\ IsOp(token_after[1], ".")
    THEN \* Class shorthand
         LET nm == self_name(commit(p, attempt)) IN
         IF ~nm.ok THEN Iteration("return", "class", nm.self, acc, nm.err)
         ELSE LET t == self_attr_toggler(nm.self) IN
              IF t.toggler # None
              THEN Iteration("continue", "class", t.self,
                       [acc EXCEPT !.classes_toggled =
                           Append(@, <<nm.val, t.toggler[1]>>)], "")
              ELSE Iteration("continue", "class", t.self,
                       [acc EXCEPT !.classes_static = Append(@, nm.val)], "")
    ELSE IF ~maybe_name.ok /\ token_after # None /\ IsOp(token_after[1], "#")
    THEN \* ID shorthand
         LET nm == self_name(commit(p, attempt)) IN
         IF ~nm.ok THEN Iteration("return", "id", nm.self, acc, nm.err)
         ELSE Iteration("continue", "id", nm.self,
                  [acc EXCEPT !.ids = Append(@, nm.val)], "")
    ELSE \* not a valid attribute: the attempt is dropped
         Iteration("break", "none", p, acc, "")

\* Parser::attrs: the loop
attrs_loop(p, acc) ==
    LET it == self_attrs_iteration(p, acc) IN
    IF it.step = "continue" THEN attrs_loop(it.self, it.acc)
    ELSE IF it.step = "break" THEN Ok(it.acc, it.self)
    ELSE error(it.self, it.err)

attrs(p) == attrs_loop(p, NoAttrs)

\* Parser::element; the element name is already consumed
element(p, nm) ==
    IF p.in_attr THEN error(p, "unexpected element, you silly bumpkin")
    ELSE LET a == self_attrs(p) IN
         IF ~a.ok THEN a
         ELSE LET t == peek(a.self) IN
              IF t # None /\ (IsOp(t[1], ";") \/ IsOp(t[1], "/"))
              THEN \* Void element
                   Ok([type |-> "Element", name |-> nm, attrs |-> a.val,
                       body |-> None], advance(a.self))
              ELSE LET m == self_markup(a.self) IN
                   IF ~m.ok THEN m
                   ELSE Ok([type |-> "Element", name |-> nm, attrs |-> a.val,
                            body |-> Some(m.val)], m.self)

\* markup_special with `let` dispatched to let_expr like the other keywords
markup_special_with_let(p) ==
    LET n == next(p) IN
    IF n.tok # None /\ IsTerm(n.tok[1])
    THEN LET keyword == n.tok[1] IN
         IF keyword.v = "if"
         THEN LET r == self_if_expr(n.self, <<keyword>>, <<>>) IN
              IF ~r.ok THEN r
              ELSE Ok([type |-> "If", segments |-> r.val], r.self)
         ELSE IF keyword.v = "while" THEN self_while_expr(n.self, keyword)
         ELSE IF keyword.v = "for" THEN self_for_expr(n.self, keyword)
         ELSE IF keyword.v = "match" THEN self_match_expr(n.self, keyword)
         ELSE IF keyword.v = "let" THEN self_let_expr(n.self, keyword)
         ELSE error(n.self, "unknown keyword")
    ELSE error(n.self, "expected keyword after @")

\* Parser::markup, the special forms: `@` is consumed, the keyword is next
markup_special(p) ==
    LET n == next(p) IN
    IF n.tok # None /\ IsTerm(n.tok[1])
    THEN LET keyword == n.tok[1] IN
         IF keyword.v = "if"
         THEN LET r == self_if_expr(n.self, <<keyword>>, <<>>) IN
              IF ~r.ok THEN r
              ELSE Ok([type |-> "If", segments |-> r.val], r.self)
         ELSE IF keyword.v = "while" THEN self_while_expr(n.self, keyword)
         ELSE IF keyword.v = "for" THEN self_for_expr(n.self, keyword)
         ELSE IF keyword.v = "match" THEN self_match_expr(n.self, keyword)
         ELSE IF keyword.v = "let"
         THEN error(n.self, "@let only works inside a block")
         ELSE error(n.self, "unknown keyword")
    ELSE error(n.self, "expected keyword after @")

\* Parser::markup: a single block of markup
markup(p) ==
    LET t == peek(p) IN
    IF t = None THEN error(p, "unexpected end of input")
    ELSE LET token == t[1] IN
         IF IsLiteral(token) THEN self_literal(advance(p), token, token.span)
         ELSE IF IsOp(token, "@") THEN markup_special(advance(p))
         ELSE IF IsTerm(token)
         THEN LET nm == self_namespaced_name(p) IN
              IF ~nm.ok THEN nm ELSE self_element(nm.self, nm.val)
         ELSE IF IsGroup(token, "Parenthesis")
         THEN Ok([type |-> "Splice", expr |-> token.stream], advance(p))
         ELSE IF IsGroup(token, "Brace")
         THEN LET b == self_block(advance(p), token.stream, token.span) IN
              IF ~b.ok THEN b
              ELSE Ok([type |-> "Block", block |-> b.val], b.self)
         ELSE error(p, "invalid syntax")

\* the method named m, applied to the arguments a (the parser first)
call(m, a) ==
    CASE m = "name" -> name(a[1])
      [] m = "namespaced_name" -> namespaced_name(a[1])
      [] m = "attr_toggler" -> attr_toggler(a[1])
      [] m = "literal" -> literal(a[1], a[2], a[3])
      [] m = "let_expr" -> let_expr(a[1], a[2])
      [] m = "markups" -> markups(a[1])
      [] m = "block" -> block(a[1], a[2], a[3])
      [] m = "if_expr" -> if_expr(a[1], a[2], a[3])
      [] m = "else_if_expr" -> else_if_expr(a[1], a[2])
      [] m = "while_expr" -> while_expr(a[1], a[2])
      [] m = "for_expr" -> for_expr(a[1], a[2])
      [] m = "match_arm" -> match_arm(a[1])
      [] m = "match_arms" -> match_arms(a[1])
      [] m = "match_expr" -> match_expr(a[1], a[2])
      [] m = "attrs" -> attrs(a[1])
      [] m = "element" -> element(a[1], a[2])
      [] m = "markup" -> markup(a[1])
      [] m = "attrs_iteration" -> attrs_iteration(a[1], a[2])

\* parse: Parser::new(input).markups()
parse(ts) == self_markups(new(ts))

-----------------------------------------------------------------------------
(* html_to!'s buffer argument                                              *)

\* peek3: Option<(TokenTree, Option<TokenTree>, Option<TokenTree>)>
peek3(ts) ==
    IF ts = <<>> THEN None
    ELSE Some(<<ts[1],
                IF Len(ts) >= 2 THEN Some(ts[2]) ELSE None,
                IF Len(ts) >= 3 THEN Some(ts[3]) ELSE None>>)

\* advance2 on a TokenTreeIter: two calls of next()
iter_advance2(ts) == IF Len(ts) <= 2 THEN <<>> ELSE SubSeq(ts, 3, Len(ts))

\* advance4: advance2 twice
iter_advance4(ts) == iter_advance2(iter_advance2(ts))

\* buffer_argument: the OutputBuffer or the error, and input_stream after
buffer_argument(input_stream) ==
    LET p3 == peek3(input_stream) IN
    IF p3 # None /\ IsTerm(p3[1][1]) /\ p3[1][2] # None /\ IsOp(p3[1][2][1], ",")
    THEN [ok |-> TRUE, err |-> "",
          val |-> [ident |-> p3[1][1], buffer_type |-> <<"Custom", "AlreadyBorrowed">>],
          input_stream |-> iter_advance2(input_stream)]
    ELSE IF p3 # None /\ IsOp(p3[1][1], "&")
            /\ p3[1][2] # None /\ IsTerm(p3[1][2][1])
            /\ p3[1][3] # None /\ IsTerm(p3[1][3][1])
            /\ p3[1][2][1].v = "mut"
    THEN [ok |-> TRUE, err |-> "",
          val |-> [ident |-> p3[1][3][1], buffer_type |-> <<"Custom", "NeedBorrow">>],
          input_stream |-> iter_advance4(input_stream)]
    ELSE [ok |-> FALSE, err |-> "Error trying to parse the buffer name for html_to!",
          val |-> <<>>, input_stream |-> input_stream]

-----------------------------------------------------------------------------
(* The token streams the tokenizer hands over: every token of a stream has *)
(* a span of its own, here the path of its position in the input.          *)

RECURSIVE spanned(_, _)
spanned(ts, path) ==
    [i \in 1..Len(ts) |->
        LET at == Append(path, i) IN
        IF ts[i].kind = "Group"
        THEN [ts[i] EXCEPT !.span = <<at, at>>, !.stream = spanned(@, at)]
        ELSE [ts[i] EXCEPT !.span = <<at, at>>]]

\* all sequences over S of length at most n
RECURSIVE SeqsUpTo(_, _)
SeqsUpTo(S, n) ==
    IF n = 0 THEN {<<>>}
    ELSE LET shorter == SeqsUpTo(S, n - 1) IN
         shorter \cup {Append(s, x) : s \in {t \in shorter : Len(t) = n - 1}, x \in S}

-----------------------------------------------------------------------------
(* Tokens the inputs are built from                                        *)

At == Op("@", "Alone")
Semi == Op(";", "Alone")
Slash == Op("/", "Alone")
Dot == Op(".", "Alone")
Hash == Op("#", "Alone")
Colon == Op(":", "Alone")
Hyphen == Op("-", "Alone")
Question == Op("?", "Alone")
Comma == Op(",", "Alone")
Amp == Op("&", "Alone")
Eq == Op("=", "Alone")
EqJoint == Op("=", "Joint")
Gt == Op(">", "Alone")
Str == Literal("s", TRUE)
Num == Literal("1", FALSE)
Brace(ts) == Group("Brace", ts)
Paren(ts) == Group("Parenthesis", ts)
Bracket(ts) == Group("Bracket", ts)

\* the streams over S of length at most n, as the tokenizer delivers them
Streams(S, n) == {spanned(ts, <<>>) : ts \in SeqsUpTo(S, n)}

-----------------------------------------------------------------------------
(* attrs(), stepped one loop iteration at a time, on a parser placed       *)
(* right after an element's name                                           *)

MaxAttrLen == 4

AttrTokens == {Term("a"), Dot, Hash, Colon, Hyphen, Eq, Question, Str,
               Bracket(<<Term("c")>>)}

\* the shorthand names recorded so far, counted in tokens (a toggler is one)
RECURSIVE SumLen(_)
SumLen(names) == IF names = <<>> THEN 0 ELSE Len(Head(names)) + SumLen(Tail(names))

ShorthandTokens(acc) ==
    SumLen(acc.classes_static) + SumLen(acc.ids)
    + SumLen([i \in 1..Len(acc.classes_toggled) |-> acc.classes_toggled[i][1]])
    + Len(acc.classes_toggled)

InitAttrs ==
    /\ input \in Streams(AttrTokens, MaxAttrLen)
    /\ self = new(input)
    /\ locals = [acc |-> NoAttrs, prev |-> NoAttrs, start |-> input,
                 form |-> "entry", step |-> "continue"]
    /\ ret = None
    /\ pc = "attrs"

\* one pass through the loop of attrs(); `locals` keeps where the pass
\* started and which arm it took
AttrsIteration ==
    /\ pc = "attrs"
    /\ \E it \in {self_attrs_iteration(self, locals.acc)} :
       /\ self' = it.self
       /\ locals' = [acc |-> it.acc, prev |-> locals.acc, start |-> self.input,
                     form |-> it.form, step |-> it.step]
       /\ pc' = IF it.step = "continue" THEN "attrs" ELSE "returned"
       /\ ret' = IF it.step = "continue" THEN ret
                 ELSE IF it.step = "break" THEN Some(Ok(it.acc, it.self))
                 ELSE Some(error(it.self, it.err))
    /\ UNCHANGED input

NextAttrs == AttrsIteration

SpecAttrs == InitAttrs /\ [][NextAttrs]_vars

\* C1: in every iteration of the loop of attrs(), a class or id shorthand
\* is committed only when the token at the iteration's start is `.` or `#`
\* (the failed name attempt consumed nothing), so the iteration removes
\* from the input exactly the `.`/`#` and the tokens it records; and when
\* no form matches, the cursor is exactly where the iteration started.
C1_ShorthandOnlyAtDotOrHash ==
    /\ locals.form \in {"class", "id"} =>
          /\ locals.start # <<>>
          /\ IsOp(Head(locals.start), ".") \/ IsOp(Head(locals.start), "#")
    /\ (locals.form \in {"class", "id"} /\ locals.step = "continue") =>
          Len(locals.start) - Len(self.input)
              = 1 + ShorthandTokens(locals.acc) - ShorthandTokens(locals.prev)
    /\ locals.form = "none" => self.input = locals.start

-----------------------------------------------------------------------------
(* buffer_argument(), applied to the front of html_to!'s input             *)

MaxBufLen == 4

BufTokens == {Term("buf"), Term("mut"), Amp, Comma, Str}

InitBuf ==
    /\ input \in Streams(BufTokens, MaxBufLen)
    /\ self = None
    /\ locals = [given |-> input]
    /\ ret = None
    /\ pc = "buffer_argument"

\* buffer_argument(&mut input): the result, and the caller's stream after
BufferArgument ==
    /\ pc = "buffer_argument"
    /\ \E r \in {buffer_argument(input)} :
       /\ ret' = Some([ok |-> r.ok, val |-> r.val, err |-> r.err])
       /\ input' = r.input_stream
    /\ pc' = "returned"
    /\ UNCHANGED <<self, locals>>

NextBuf == BufferArgument

SpecBuf == InitBuf /\ [][NextBuf]_vars

\* (a) an identifier directly followed by `,`
ShapeAlreadyBorrowed(ts) == Len(ts) >= 2 /\ IsTerm(ts[1]) /\ IsOp(ts[2], ",")

\* (b) `&`, `mut`, an identifier, followed by `,`
ShapeNeedBorrow(ts) ==
    /\ Len(ts) >= 4
    /\ IsOp(ts[1], "&") /\ IsTermNamed(ts[2], "mut") /\ IsTerm(ts[3])
    /\ IsOp(ts[4], ",")

\* C3: buffer_argument succeeds exactly on shape (a), reported as
\* AlreadyBorrowed, or shape (b), reported as NeedBorrow; on success exactly
\* that 2- or 4-token prefix is removed from the input; every other input
\* gets the buffer-name error and is left as it was.
C3_ExactlyTwoShapes ==
    pc = "returned" =>
        LET given == locals.given
            r == ret[1]
        IN
        /\ r.ok <=> (ShapeAlreadyBorrowed(given) \/ ShapeNeedBorrow(given))
        /\ ShapeAlreadyBorrowed(given) =>
              /\ r.ok /\ r.val = [ident |-> given[1],
                                 buffer_type |-> <<"Custom", "AlreadyBorrowed">>]
              /\ input = SubSeq(given, 3, Len(given))
        /\ ShapeNeedBorrow(given) =>
              /\ r.ok /\ r.val = [ident |-> given[3],
                                 buffer_type |-> <<"Custom", "NeedBorrow">>]
              /\ input = SubSeq(given, 5, Len(given))
        /\ ~(ShapeAlreadyBorrowed(given) \/ ShapeNeedBorrow(given)) =>
              /\ ~r.ok
              /\ r.err = "Error trying to parse the buffer name for html_to!"
              /\ input = given

-----------------------------------------------------------------------------
(* parse(), applied to an @if chain: `@if C {..}`, then `@else if C {..}`  *)
(* clauses, then an optional `@else {..}`                                  *)

MaxElseIf == 2

\* the conditions of the clauses (opaque to the parser; no brace group)
IfConds == {<<>>, <<Term("c")>>, <<Term("c"), EqJoint, Eq, Num>>,
            <<Paren(<<Term("c")>>), Term("else")>>}

IfBodies == {<<>>, <<Str>>}

\* one clause of a chain: what introduces it, its condition, its body
Clause(kind, cond, body) == [kind |-> kind, cond |-> cond, body |-> body]

ClauseKeywords(kind) ==
    CASE kind = "if" -> <<Term("if")>>
      [] kind = "else if" -> <<Term("else"), Term("if")>>
      [] kind = "else" -> <<Term("else")>>

ClauseTokens(c) == <<At>> \o ClauseKeywords(c.kind) \o c.cond \o <<Brace(c.body)>>

RECURSIVE ChainTokens(_)
ChainTokens(cs) ==
    IF cs = <<>> THEN <<>> ELSE ClauseTokens(Head(cs)) \o ChainTokens(Tail(cs))

IfClauses == {Clause("if", c, b) : c \in IfConds, b \in IfBodies}
ElseIfClauses == {Clause("else if", c, b) : c \in IfConds, b \in IfBodies}
ElseClauses == {Clause("else", <<>>, b) : b \in IfBodies}

IfChains ==
    {<<first>> \o mid \o last :
        first \in IfClauses,
        mid \in SeqsUpTo(ElseIfClauses, MaxElseIf),
        last \in {<<>>} \cup {<<e>> : e \in ElseClauses}}

InitIf ==
    /\ locals \in {[chain |-> cs] : cs \in IfChains}
    /\ input = spanned(ChainTokens(locals.chain), <<>>)
    /\ self = new(input)
    /\ ret = None
    /\ pc = "parse"

\* parse(input): Parser::new(input).markups()
Parse ==
    /\ pc = "parse"
    /\ \E r \in {parse(input)} :
       /\ ret' = Some([ok |-> r.ok, val |-> r.val, err |-> r.err])
       /\ self' = r.self
    /\ pc' = "returned"
    /\ UNCHANGED <<input, locals>>

NextIf == Parse

SpecIf == InitIf /\ [][NextIf]_vars

\* where clause i of the chain starts in the input (the position of its `@`)
RECURSIVE ClauseStart(_, _)
ClauseStart(cs, i) ==
    IF i = 1 THEN 1 ELSE ClauseStart(cs, i - 1) + Len(ClauseTokens(cs[i - 1]))

\* the position of the brace group of clause i
ClauseBrace(cs, i) == ClauseStart(cs, i) + Len(ClauseTokens(cs[i])) - 1

\* the parse returned one If markup with one segment per clause, in source
\* order: segment i has the body of clause i, and its head is the slice of
\* the input from the clause's keyword up to its brace group
OneSegmentPerBody ==
    LET cs == locals.chain
        r == ret[1]
    IN
    /\ r.ok /\ Len(r.val) = 1 /\ r.val[1].type = "If"
    /\ Len(r.val[1].segments) = Len(cs)
    /\ \A i \in 1..Len(cs) :
          LET seg == r.val[1].segments[i]
              group == input[ClauseBrace(cs, i)]
          IN
          /\ seg.body.span = group.span
          /\ Len(seg.body.markups) = Len(cs[i].body)
          /\ \A k \in 1..Len(cs[i].body) :
                seg.body.markups[k].span = group.stream[k].span
          /\ seg.head = SubSeq(input, ClauseStart(cs, i) + 1, ClauseBrace(cs, i) - 1)

\* C2 as stated: one segment per body in source order, the segment of a
\* bare `@else` has an empty head, and only the last segment can have one.
C2_BareElseHeadEmpty ==
    pc = "returned" =>
        /\ OneSegmentPerBody
        /\ \A i \in 1..Len(locals.chain) :
              /\ locals.chain[i].kind = "else" => ret[1].val[1].segments[i].head = <<>>
              /\ ret[1].val[1].segments[i].head = <<>> => i = Len(locals.chain)

\* C2 as amended: one segment per body in source order; the head of every
\* segment starts with the keywords of its clause, so the segment of a bare
\* `@else` has the head `else` alone (never an empty head), and a segment
\* whose head is `else` alone can only be the last one.
C2_BareElseHeadIsElseKeyword ==
    pc = "returned" =>
        /\ OneSegmentPerBody
        /\ \A i \in 1..Len(locals.chain) :
              LET head == ret[1].val[1].segments[i].head IN
              /\ head # <<>>
              /\ locals.chain[i].kind = "else" =>
                    Len(head) = 1 /\ IsTermNamed(head[1], "else")
              /\ locals.chain[i].kind = "else if" =>
                    Len(head) >= 2 /\ IsTermNamed(head[1], "else")
                    /\ IsTermNamed(head[2], "if")
              /\ locals.chain[i].kind = "if" => IsTermNamed(head[1], "if")
              /\ (Len(head) = 1 /\ IsTermNamed(head[1], "else")) =>
                    i = Len(locals.chain)

\* a chain of three clauses, the last a bare `@else`, has been parsed
C2_Witness ==
    /\ pc = "returned" /\ ret[1].ok
    /\ Len(locals.chain) = 3 /\ locals.chain[3].kind = "else"
    /\ Len(ret[1].val[1].segments) = 3

-----------------------------------------------------------------------------
(* match_arms(), stepped one match_arm() at a time, on the parser that     *)
(* match_expr makes for the brace group of a @match                        *)

MaxArmLen == 5

ArmTokens == {Term("x"), EqJoint, Eq, Gt, Comma, Str, Brace(<<Str>>), Brace(<<Num>>)}

InitArms ==
    /\ input \in Streams(ArmTokens, MaxArmLen)
    /\ self = with_input(new(<<>>), input)
    /\ locals = [arms |-> <<>>, start |-> input, arm |-> None]
    /\ ret = None
    /\ pc = "match_arms"

\* one pass through `while let Some(arm) = self.match_arm()?`; `locals`
\* keeps where the call started and what it returned
MatchArm ==
    /\ pc = "match_arms"
    /\ \E r \in {self_match_arm(self)} :
       /\ self' = r.self
       /\ locals' = [arms |-> IF r.ok /\ r.val # None
                              THEN Append(locals.arms, r.val[1]) ELSE locals.arms,
                     start |-> self.input,
                     arm |-> Some([ok |-> r.ok, val |-> r.val, err |-> r.err])]
       /\ pc' = IF r.ok /\ r.val # None THEN "match_arms" ELSE "returned"
       /\ ret' = IF ~r.ok THEN Some([ok |-> FALSE, val |-> <<>>, err |-> r.err])
                 ELSE IF r.val = None
                 THEN Some([ok |-> TRUE, val |-> locals.arms, err |-> ""])
                 ELSE ret
    /\ UNCHANGED input

NextArms == MatchArm

SpecArms == InitArms /\ [][NextArms]_vars

\* the positions of s holding a joint `=` directly followed by `>`
Arrows(s) == {i \in 1..Len(s) : IsJointOp(s[i], "=") /\ i < Len(s) /\ IsOp(s[i + 1], ">")}

Least(S) == CHOOSE i \in S : \A j \in S : i <= j

\* the positions of s from `from` on holding a `,`
CommasFrom(s, from) == {j \in from..Len(s) : IsOp(s[j], ",")}

\* C9: the pattern of an arm ends at the first joint `=` whose next token is
\* `>`: the head is the input up to and including that pair, so a spaced
\* `=` before a `>`, or `=` and `>` apart, stay inside the pattern; with no
\* arrow, a non-empty rest is the pattern error and an empty one ends the
\* arm list without error.
C9_ArrowIsFirstJointEqGt ==
    locals.arm # None =>
        LET s == locals.start
            r == locals.arm[1]
        IN
        /\ (Arrows(s) # {} /\ r.ok) =>
              /\ r.val # None
              /\ r.val[1].head = SubSeq(s, 1, Least(Arrows(s)) + 1)
        /\ (Arrows(s) # {} /\ ~r.ok) => r.err # "unexpected end of @match pattern"
        /\ (Arrows(s) = {} /\ s # <<>>) =>
              ~r.ok /\ r.err = "unexpected end of @match pattern"
        /\ s = <<>> => (r.ok /\ r.val = None /\ pc = "returned" /\ ret[1].ok)

\* an arm whose pattern holds a spaced `=` directly before a `>`, and then
\* the arrow, has been parsed
C9_Witness ==
    /\ locals.arm # None /\ locals.arm[1].ok /\ locals.arm[1].val # None
    /\ Len(locals.start) >= 4
    /\ IsOp(locals.start[1], "=") /\ ~IsJointOp(locals.start[1], "=")
    /\ IsOp(locals.start[2], ">")
    /\ Len(locals.arm[1].val[1].head) = 4

\* the arrow of s is followed by a body that is no brace group and is ended
\* by a `,`: the run is the first token after the arrow (whatever it is)
\* and the tokens after it up to the next `,`
ArmRunEnd(s) == Least(CommasFrom(s, Least(Arrows(s)) + 3))
ArmRun(s) == SubSeq(s, Least(Arrows(s)) + 2, ArmRunEnd(s) - 1)

HasExprBody(s) ==
    /\ Arrows(s) # {}
    /\ Least(Arrows(s)) + 2 <= Len(s)
    /\ ~IsGroup(s[Least(Arrows(s)) + 2], "Brace")
    /\ CommasFrom(s, Least(Arrows(s)) + 3) # {}

\* the same, with no `,` at the start of the run: a non-empty run up to
\* the first `,`
HasNonEmptyExprBody(s) ==
    HasExprBody(s) /\ ~IsOp(s[Least(Arrows(s)) + 2], ",")

HasBraceBody(s) ==
    /\ Arrows(s) # {}
    /\ Least(Arrows(s)) + 2 <= Len(s)
    /\ IsGroup(s[Least(Arrows(s)) + 2], "Brace")

\* C4 as stated: the run of a non-brace arm body up to the first `,` always
\* becomes a Block of exactly one markup; a brace-bodied arm (whose block
\* parses) parses with or without a `,` after it.
C4_ExprBodyIsOneMarkup ==
    locals.arm # None =>
        LET s == locals.start
            r == locals.arm[1]
        IN
        /\ HasNonEmptyExprBody(s) =>
              r.ok /\ r.val # None /\ Len(r.val[1].body.markups) = 1
        /\ HasBraceBody(s) =>
              r.ok = markups(with_input(self, s[Least(Arrows(s)) + 2].stream)).ok

\* C4 as amended: the run (the token after the arrow and what follows it
\* up to the next `,`) is parsed as a markup sequence, as the contents of
\* a brace block are, and the Block of its markups, spanning the run, is
\* the arm's body: as many markups as the run holds, one for a run of one
\* string literal; the arm fails with the run's error when the run is no
\* markup sequence, and with the end-of-arm error when no `,` ends it; the
\* `,` is consumed.  A brace-bodied arm parses with or without a `,` after
\* it, which is consumed when present.
C4_ExprBodyIsParsedAsMarkups ==
    locals.arm # None =>
        LET s == locals.start
            r == locals.arm[1]
            a == Least(Arrows(s))
        IN
        /\ HasExprBody(s) =>
              LET run == ArmRun(s)
                  inner == markups(with_input(self, run))
              IN
              /\ r.ok = inner.ok
              /\ ~r.ok => r.err = inner.err
              /\ r.ok =>
                    /\ r.val # None
                    /\ r.val[1].body.markups = inner.val
                    /\ r.val[1].body.span = <<run[1].span[1], run[Len(run)].span[2]>>
                    /\ self.input = SubSeq(s, ArmRunEnd(s) + 1, Len(s))
              /\ (\A k \in 1..Len(run) : IsLiteral(run[k]) /\ run[k].str) =>
                    /\ r.ok
                    /\ Len(r.val[1].body.markups) = Len(run)
                    /\ \A k \in 1..Len(run) :
                          r.val[1].body.markups[k]
                             = [type |-> "Literal", content |-> run[k].v,
                                span |-> run[k].span]
        /\ (Arrows(s) # {} /\ ~HasExprBody(s) /\ ~HasBraceBody(s)) =>
              ~r.ok /\ r.err = "unexpected end of @match arm"
        /\ HasBraceBody(s) =>
              LET inner == markups(with_input(self, s[a + 2].stream)) IN
              /\ r.ok = inner.ok
              /\ ~r.ok => r.err = inner.err
              /\ r.ok =>
                    /\ r.val # None
                    /\ r.val[1].body = [markups |-> inner.val, span |-> s[a + 2].span]
                    /\ self.input =
                          IF a + 3 <= Len(s) /\ IsOp(s[a + 3], ",")
                          THEN SubSeq(s, a + 4, Len(s)) ELSE SubSeq(s, a + 3, Len(s))

\* an arm with the body `"s" "s",` has been parsed: a Block of two markups
C4_Witness ==
    /\ locals.arm # None /\ locals.arm[1].ok /\ locals.arm[1].val # None
    /\ HasExprBody(locals.start)
    /\ Len(ArmRun(locals.start)) = 2
    /\ Len(locals.arm[1].val[1].body.markups) = 2

-----------------------------------------------------------------------------
(* parse(), applied to an input that ends in one construct, whole and cut  *)
(* just before the construct's final required delimiter                    *)

MaxCutArms == 1

\* opaque heads, patterns and bodies the constructs are built from
CutHeads == {<<Term("x")>>, <<Term("x"), Paren(<<Str>>)>>}
CutPatterns == {<<>>, <<Term("x")>>, <<Brace(<<Term("x")>>)>>}
CutBodies == {<<>>, <<Str>>}

\* complete match arms that may precede the arm that is cut
CutArms == {<<Term("x"), EqJoint, Gt, Brace(<<Str>>)>>,
            <<Num, EqJoint, Gt, Str, Comma>>}

RECURSIVE Flatten(_)
Flatten(ss) == IF ss = <<>> THEN <<>> ELSE Head(ss) \o Flatten(Tail(ss))

\* a construct: the tokens before its final required delimiter, and the
\* delimiter with what follows it; for a match arm, the arms that precede
\* it and its pattern
CutCase(what, pre, rest, arms, pat) ==
    [what |-> what, pre |-> pre, rest |-> rest, before |-> Len(arms), pat |-> pat]

CutCases ==
    {CutCase("if body", <<At, Term("if")>> \o h, <<Brace(b)>>, <<>>, <<>>) :
        h \in CutHeads, b \in CutBodies}
    \cup {CutCase("else if body",
                  <<At, Term("if"), Term("x"), Brace(<<>>), At, Term("else"), Term("if")>> \o h,
                  <<Brace(b)>>, <<>>, <<>>) : h \in CutHeads, b \in CutBodies}
    \cup {CutCase("else brace",
                  <<At, Term("if")>> \o h \o <<Brace(<<>>), At, Term("else")>>,
                  <<Brace(b)>>, <<>>, <<>>) : h \in CutHeads, b \in CutBodies}
    \cup {CutCase("while body", <<At, Term("while")>> \o h, <<Brace(b)>>, <<>>, <<>>) :
        h \in CutHeads, b \in CutBodies}
    \cup {CutCase("for in", <<At, Term("for")>> \o pat,
                  <<Term("in")>> \o h \o <<Brace(b)>>, <<>>, <<>>) :
        pat \in CutPatterns, h \in CutHeads, b \in CutBodies}
    \cup {CutCase("for body", <<At, Term("for")>> \o pat \o <<Term("in")>> \o h,
                  <<Brace(b)>>, <<>>, <<>>) :
        pat \in CutPatterns, h \in CutHeads, b \in CutBodies}
    \cup {CutCase("match brace", <<At, Term("match")>> \o h,
                  <<Brace(Flatten(arms))>>, <<>>, <<>>) :
        h \in CutHeads, arms \in SeqsUpTo(CutArms, MaxCutArms)}
    \cup {CutCase("arm arrow", Flatten(arms) \o pat,
                  <<EqJoint, Gt>> \o body, arms, pat) :
        arms \in SeqsUpTo(CutArms, MaxCutArms), pat \in CutPatterns \ {<<Brace(<<Term("x")>>)>>},
        body \in {<<Str, Comma>>, <<Brace(<<Str>>)>>}}
    \cup {CutCase("arm comma", Flatten(arms) \o pat \o <<EqJoint, Gt, Str>>,
                  <<Comma>>, arms, pat) :
        arms \in SeqsUpTo(CutArms, MaxCutArms), pat \in CutPatterns \ {<<Brace(<<Term("x")>>)>>}}
    \cup {CutCase("let =", <<At, Term("let")>> \o pat, <<Eq>> \o h \o <<Semi>>, <<>>, <<>>) :
        pat \in CutPatterns, h \in CutHeads}
    \cup {CutCase("let ;", <<At, Term("let")>> \o pat \o <<Eq>> \o h, <<Semi>>, <<>>, <<>>) :
        pat \in CutPatterns, h \in CutHeads}
    \cup {CutCase("element end", <<Term("p")>> \o a, <<d>>, <<>>, <<>>) :
        a \in {<<>>, <<Dot, Term("c")>>, <<Term("a"), Eq, Str>>},
        d \in {Semi, Slash, Str, Brace(<<>>), Paren(<<Term("x")>>)}}

\* where the construct stands: at the top level, after another markup,
\* in a brace block, or as the body of an element
CutPlaces == {"top", "after", "block", "element"}

InArms(c) == c.what \in {"arm arrow", "arm comma"}

\* the input holding the tokens ts of construct c at the given place; the
\* arms of a @match stand inside its brace group
Placed(c, place, ts) ==
    LET m == IF InArms(c)
             THEN <<At, Term("match"), Term("x"), Brace(ts)>> ELSE ts
    IN CASE place = "top" -> m
         [] place = "after" -> <<Str>> \o m
         [] place = "block" -> <<Brace(m)>>
         [] place = "element" -> <<Term("p")>> \o m

InitCut ==
    /\ locals \in {[case |-> c, place |-> pl, cut |-> b] :
                      c \in CutCases, pl \in CutPlaces, b \in BOOLEAN}
    /\ input = spanned(Placed(locals.case, locals.place,
                              IF locals.cut THEN locals.case.pre
                              ELSE locals.case.pre \o locals.case.rest), <<>>)
    /\ self = new(input)
    /\ ret = None
    /\ pc = "parse"

NextCut == Parse

SpecCut == InitCut /\ [][NextCut]_vars

\* the whole input of the state's construct is one that parse accepts
WholeIsValid ==
    parse(spanned(Placed(locals.case, locals.place,
                         locals.case.pre \o locals.case.rest), <<>>)).ok

\* the messages of the errors raised at the end of the input
UnexpectedEnd ==
    {"unexpected end of input", "unexpected end of @if expression",
     "unexpected end of @while expression", "unexpected end of @for expression",
     "unexpected end of @match expression", "unexpected end of @match pattern",
     "unexpected end of @match arm", "unexpected end of @let expression"}

\* C5 as stated: a valid input cut just before its final required
\* delimiter makes parse return an error of the unexpected-end-of-input
\* class, never Ok.
C5_CutGivesUnexpectedEnd ==
    (pc = "returned" /\ locals.cut /\ WholeIsValid) =>
        ~ret[1].ok /\ ret[1].err \in UnexpectedEnd

\* the message parse gives for a construct cut before its delimiter
CutMessage(what) ==
    CASE what \in {"if body", "else if body"} -> "unexpected end of @if expression"
      [] what = "else brace" -> "expected body for @else"
      [] what = "while body" -> "unexpected end of @while expression"
      [] what \in {"for in", "for body"} -> "unexpected end of @for expression"
      [] what = "match brace" -> "unexpected end of @match expression"
      [] what = "arm arrow" -> "unexpected end of @match pattern"
      [] what = "arm comma" -> "unexpected end of @match arm"
      [] what \in {"let =", "let ;"} -> "unexpected end of @let expression"
      [] what = "element end" -> "unexpected end of input"

\* the arm whose arrow is cut has no pattern token: the cut leaves nothing
\* of it behind
EmptyPatternArm(c) == c.what = "arm arrow" /\ c.pat = <<>>

\* the Match markup of a returned AST, through the place it stands at
MatchAt(val, place) ==
    CASE place = "top" -> val[1]
      [] place = "after" -> val[2]
      [] place = "block" -> val[1].block.markups[1]
      [] place = "element" -> val[1].body[1]

\* C5 as amended: the cut makes parse fail with the end-of-input message of
\* the construct that was cut, except that a bare @else cut before its
\* brace fails with "expected body for @else", and that a match arm with an
\* empty pattern cut before its arrow leaves a valid input, for which parse
\* returns the @match with the arms that precede it.
C5_CutFailsUnlessNothingIsLeft ==
    (pc = "returned" /\ locals.cut /\ WholeIsValid) =>
        IF EmptyPatternArm(locals.case)
        THEN /\ ret[1].ok
             /\ MatchAt(ret[1].val, locals.place).type = "Match"
             /\ Len(MatchAt(ret[1].val, locals.place).arms) = locals.case.before
        ELSE /\ ~ret[1].ok
             /\ ret[1].err = CutMessage(locals.case.what)

\* a valid @let, cut before its `;`, has been parsed and rejected
C5_Witness ==
    /\ pc = "returned" /\ locals.cut /\ WholeIsValid
    /\ locals.case.what = "let ;"
    /\ ~ret[1].ok

-----------------------------------------------------------------------------
(* parse(), applied to markup nested in markup: an innermost piece of      *)
(* markup, wrapped in up to MaxNest constructs that each hold it in one of *)
(* their positions                                                         *)

MaxNest == 2

\* the innermost pieces
Atoms == {"string", "number", "splice", "void", "let"}

AtomTokens(a) ==
    CASE a = "string" -> <<Str>>
      [] a = "number" -> <<Num>>
      [] a = "splice" -> <<Paren(<<Term("x"), Comma, Num>>)>>
      [] a = "void" -> <<Term("q"), Semi>>
      [] a = "let" -> <<At, Term("let"), Term("x"), Eq, Num, Semi>>

\* the constructs whose position for m is a sequence of markups
SeqSlots == {"block", "after", "if", "else", "else if", "while", "for",
             "arm brace", "arm run"}

\* the elements whose position for m is their body: a single markup
BodySlots == {"body", "body after class", "body after attr"}

\* the elements whose position for m is an attribute value: a single markup
ValueSlots == {"value", "value then attr", "second value"}

Wrappers == SeqSlots \cup BodySlots \cup ValueSlots

\* the tokens of construct w holding the tokens m
Wrap(w, m) ==
    CASE w = "block" -> <<Brace(m)>>
      [] w = "after" -> <<Str>> \o m
      [] w = "if" -> <<At, Term("if"), Term("c"), EqJoint, Eq, Num, Brace(m)>>
      [] w = "else" ->
            <<At, Term("if"), Term("c"), Brace(<<Str>>), At, Term("else"), Brace(m)>>
      [] w = "else if" ->
            <<At, Term("if"), Term("c"), Brace(<<>>),
              At, Term("else"), Term("if"), Paren(<<Term("d")>>), Brace(m)>>
      [] w = "while" -> <<At, Term("while"), Term("c"), Brace(m)>>
      [] w = "for" ->
            <<At, Term("for"), Term("x"), Term("in"), Term("y"), Paren(<<>>), Brace(m)>>
      [] w = "arm brace" ->
            <<At, Term("match"), Term("x"),
              Brace(<<Term("y"), EqJoint, Gt, Brace(m)>>)>>
      [] w = "arm run" ->
            <<At, Term("match"), Term("x"), Hyphen,
              Brace(<<Num, EqJoint, Gt>> \o m \o <<Comma>>)>>
      [] w = "body" -> <<Term("p")>> \o m
      [] w = "body after class" ->
            <<Term("p"), Dot, Term("c"), Bracket(<<Term("t"), Amp, Num>>)>> \o m
      [] w = "body after attr" -> <<Term("p"), Term("a"), Eq, Str>> \o m
      [] w = "value" -> <<Term("p"), Term("a"), Eq>> \o m \o <<Semi>>
      [] w = "value then attr" ->
            <<Term("p"), Term("a"), Eq>> \o m
            \o <<Term("b"), Question, Bracket(<<Term("t")>>), Term("q"), Slash>>
      [] w = "second value" ->
            <<Term("p"), Term("a"), Eq, Str, Term("b"), Eq>> \o m \o <<Semi>>

\* two markups in a row stand only where a sequence of markups does
WellNested(chain) ==
    \A k \in 2..Len(chain) : chain[k] = "after" => chain[k - 1] \in SeqSlots

Chains == {chain \in SeqsUpTo(Wrappers, MaxNest) : WellNested(chain)}

\* the tokens of the atom inside the constructs of the chain, outermost first
RECURSIVE Build(_, _)
Build(chain, a) ==
    IF chain = <<>> THEN AtomTokens(a) ELSE Wrap(Head(chain), Build(Tail(chain), a))

Init ==
    /\ locals \in {[chain |-> chain, atom |-> a] : chain \in Chains, a \in Atoms}
    /\ input = spanned(Build(locals.chain, locals.atom), <<>>)
    /\ self = new(input)
    /\ ret = None
    /\ pc = "parse"

Next == Parse

Spec == Init /\ [][Next]_vars

\* the input stream and the inner stream of every group in it
RECURSIVE AllStreams(_)
AllStreams(ts) ==
    {ts} \cup UNION {AllStreams(ts[i].stream) : i \in {j \in 1..Len(ts) : ts[j].kind = "Group"}}

\* the token sequences an AST keeps unparsed
RECURSIVE OpaqueOf(_)
OpaqueOfAll(ms) == UNION {OpaqueOf(ms[i]) : i \in 1..Len(ms)}

OpaqueOfSpecial(s) == {s.head} \cup OpaqueOfAll(s.body.markups)

OpaqueOfAttrs(a) ==
    {a.classes_toggled[i][2].cond : i \in 1..Len(a.classes_toggled)}
    \cup UNION {LET t == a.attrs[i].attr_type IN
                IF t.type = "Normal" THEN OpaqueOf(t.value)
                ELSE {t.toggler[k].cond : k \in 1..Len(t.toggler)} :
                i \in 1..Len(a.attrs)}

OpaqueOf(m) ==
    CASE m.type = "Literal" -> {}
      [] m.type = "Splice" -> {m.expr}
      [] m.type = "Block" -> OpaqueOfAll(m.block.markups)
      [] m.type = "Element" ->
            OpaqueOfAttrs(m.attrs) \cup OpaqueOfAll(m.body)
      [] m.type = "If" ->
            UNION {OpaqueOfSpecial(m.segments[i]) : i \in 1..Len(m.segments)}
      [] m.type = "Special" -> OpaqueOfSpecial(m.special)
      [] m.type = "Match" ->
            {m.head} \cup UNION {OpaqueOfSpecial(m.arms[i]) : i \in 1..Len(m.arms)}
      [] m.type = "Let" -> {m.tokens}

\* seq is a run of consecutive tokens of the stream s
IsSliceOf(seq, s) ==
    \E i \in 1..(Len(s) + 1) :
        i + Len(seq) - 1 <= Len(s) /\ seq = SubSeq(s, i, i + Len(seq) - 1)

\* C6: in every AST parse returns, each token sequence kept unparsed (a
\* Splice's expr, the head of an if/else-if/else segment, of a while, of a
\* for, of a match and of a match arm, a Let's tokens, a Toggler's cond) is
\* a run of consecutive tokens of the input stream or of the inner stream of
\* one of its groups: the same tokens (each with its own span) in the same
\* order, none dropped, duplicated, inserted or moved.
C6_OpaqueTokensAreInputSlices ==
    (pc = "returned" /\ ret[1].ok) =>
        \A seq \in OpaqueOfAll(ret[1].val) :
            \E s \in AllStreams(input) : IsSliceOf(seq, s)

\* an AST with a Toggler, a match arm and a Let in it
C6_Witness ==
    /\ pc = "returned" /\ ret[1].ok
    /\ locals.chain = <<"body after class", "arm run">>
    /\ locals.atom = "let"
    /\ Cardinality(OpaqueOfAll(ret[1].val)) = 4

\* the markups of an AST, each with the position it stands at ("item" of a
\* sequence of markups, "body" of an element, "value" of an attribute) and
\* whether it lies inside an attribute value
RECURSIVE NodesOf(_, _, _)
NodesOfAll(ms, inval) == UNION {NodesOf(ms[i], "item", inval) : i \in 1..Len(ms)}

NodesOf(m, pos, inval) ==
    {[type |-> m.type, pos |-> pos, inval |-> inval]}
    \cup CASE m.type = "Block" -> NodesOfAll(m.block.markups, inval)
           [] m.type = "Element" ->
                UNION {NodesOf(m.body[k], "body", inval) : k \in 1..Len(m.body)}
                \cup UNION {NodesOf(m.attrs.attrs[i].attr_type.value, "value", TRUE) :
                            i \in {j \in 1..Len(m.attrs.attrs) :
                                      m.attrs.attrs[j].attr_type.type = "Normal"}}
           [] m.type = "If" ->
                UNION {NodesOfAll(m.segments[i].body.markups, inval) :
                       i \in 1..Len(m.segments)}
           [] m.type = "Special" -> NodesOfAll(m.special.body.markups, inval)
           [] m.type = "Match" ->
                UNION {NodesOfAll(m.arms[i].body.markups, inval) : i \in 1..Len(m.arms)}
           [] OTHER -> {}

\* the pieces of the state's input, outermost first: its constructs, then
\* its atom
Pieces == Append(locals.chain, locals.atom)

\* piece k is an element
IsElementPiece(k) == Pieces[k] \in BodySlots \cup ValueSlots \cup {"void"}

\* piece k stands inside an attribute value
InValue(k) == \E i \in 1..(k - 1) : Pieces[i] \in ValueSlots

ElementInValue == \E k \in 1..Len(Pieces) : IsElementPiece(k) /\ InValue(k)

\* the atom is a @let where a single markup is expected
LetAsSingleMarkup ==
    /\ locals.atom = "let" /\ locals.chain # <<>>
    /\ locals.chain[Len(locals.chain)] \in BodySlots \cup ValueSlots

\* C7: an element reached while an attribute value is parsed, directly or
\* inside blocks and bodies of control constructs nested in the value,
\* fails with the element-in-attribute error, so no AST has an Element
\* inside an attribute value; once a value is parsed the flag is cleared
\* again: the element's later attributes and its body, elements included,
\* parse, and the parser is left with the flag cleared.
C7_InAttrExactlyInsideValues ==
    pc = "returned" =>
        /\ ElementInValue =>
              ~ret[1].ok /\ ret[1].err = "unexpected element, you silly bumpkin"
        /\ ret[1].ok =>
              /\ \A n \in NodesOfAll(ret[1].val, FALSE) : ~(n.type = "Element" /\ n.inval)
              /\ ~self.in_attr
        /\ (~ElementInValue /\ ~LetAsSingleMarkup /\ locals.atom # "number") => ret[1].ok

\* an element inside the body of a control construct that is an attribute's
\* value has been rejected
C7_Witness ==
    /\ pc = "returned" /\ ~ret[1].ok
    /\ Len(locals.chain) = 2 /\ locals.chain[1] = "value then attr"
    /\ locals.chain[2] \in {"if", "while", "for", "arm brace", "arm run"}
    /\ locals.atom = "void"

\* the position the atom stands at is the top level or the direct contents
\* of a brace group
AtomInBraceBlockOrTop ==
    \A k \in 1..Len(locals.chain) :
        (\A j \in (k + 1)..Len(locals.chain) : locals.chain[j] = "after")
            => locals.chain[k] \in SeqSlots \ {"arm run"}

\* C8 as stated: @let is accepted only at the top level or as a direct item
\* of the contents of a brace block, where it gives a Let; where a single
\* markup is expected it fails with the @let diagnostic.
C8_LetOnlyInBraceBlockOrTop ==
    (pc = "returned" /\ locals.atom = "let" /\ ~ElementInValue) =>
        /\ ret[1].ok <=> AtomInBraceBlockOrTop
        /\ LetAsSingleMarkup =>
              ~ret[1].ok /\ ret[1].err = "@let only works inside a block"

\* C8 as amended: @let is accepted exactly as a direct item of a sequence
\* of markups (the top level, the contents of a brace block, and the
\* comma-terminated body of a match arm), where it gives a Let; where a
\* single markup is expected (an element's body, an attribute's value) it
\* fails with the @let diagnostic, so no AST has a Let at such a place.
C8_LetOnlyInMarkupSequence ==
    pc = "returned" =>
        /\ (locals.atom = "let" /\ ~ElementInValue) =>
              /\ ret[1].ok <=> ~LetAsSingleMarkup
              /\ ret[1].ok =>
                    \E n \in NodesOfAll(ret[1].val, FALSE) : n.type = "Let"
              /\ LetAsSingleMarkup =>
                    ret[1].err = "@let only works inside a block"
        /\ ret[1].ok =>
              \A n \in NodesOfAll(ret[1].val, FALSE) : n.type = "Let" => n.pos = "item"

\* a @let as an element's body, inside a block, has been rejected
C8_Witness ==
    /\ pc = "returned" /\ ~ret[1].ok
    /\ locals.chain = <<"block", "body">> /\ locals.atom = "let"
    /\ ret[1].err = "@let only works inside a block"

-----------------------------------------------------------------------------
(* for_expr(), applied to the tokens that follow `@for`                     *)

MaxForLen == 5

ForTokens == {Term("x"), Term("in"), Brace(<<Str>>), Brace(<<Num>>), Paren(<<Term("in")>>)}

InitFor ==
    /\ input \in Streams(ForTokens, MaxForLen)
    /\ self = new(input)
    /\ locals = [keyword |-> [Term("for") EXCEPT !.span = << <<0>>, <<0>> >>]]
    /\ ret = None
    /\ pc = "for_expr"

\* markup() at `@for`: self.for_expr(keyword)
ForExpr ==
    /\ pc = "for_expr"
    /\ \E r \in {self_for_expr(self, locals.keyword)} :
       /\ ret' = Some([ok |-> r.ok, val |-> r.val, err |-> r.err])
       /\ self' = r.self
    /\ pc' = "returned"
    /\ UNCHANGED <<input, locals>>

NextFor == ForExpr

SpecFor == InitFor /\ [][NextFor]_vars

\* the scan C10 compares for_expr with: one loop that stops at the first
\* brace group and requires an `in` among the tokens before it
RECURSIVE single_scan_loop(_, _, _)
single_scan_loop(p, head, seen_in) ==
    LET n == next(p) IN
    IF n.tok = None THEN error(n.self, "unexpected end of @for expression")
    ELSE IF IsGroup(n.tok[1], "Brace")
    THEN IF ~seen_in THEN error(n.self, "unexpected end of @for expression")
         ELSE LET b == block(n.self, n.tok[1].stream, n.tok[1].span) IN
              IF ~b.ok THEN b
              ELSE Ok([type |-> "Special", special |-> [head |-> head, body |-> b.val]],
                      n.self)
    ELSE single_scan_loop(n.self, Append(head, n.tok[1]),
                          seen_in \/ IsTermNamed(n.tok[1], "in"))

single_scan(p, keyword) == single_scan_loop(p, <<keyword>>, FALSE)

\* both scans reject, or both accept with the same head, body and rest
SameOutcome(r, s, rest) ==
    /\ r.ok = s.ok
    /\ r.ok => r.val = s.val /\ rest = s.self.input

\* C10 as stated: for every token stream after `@for`, the two-phase scan
\* and the single scan both reject or both accept with the same head, the
\* same body and the same remaining input.
C10_SingleScanEquivalent ==
    pc = "returned" =>
        SameOutcome(ret[1], single_scan(new(input), locals.keyword), self.input)

\* the positions of the `in` terms and of the brace groups of s
InsOf(s) == {i \in 1..Len(s) : IsTermNamed(s[i], "in")}
BracesOf(s) == {i \in 1..Len(s) : IsGroup(s[i], "Brace")}

\* a brace group stands before the first `in` of s
BraceBeforeIn(s) ==
    InsOf(s) # {} /\ \E j \in BracesOf(s) : j < Least(InsOf(s))

\* C10 as amended: the two scans have the same outcome on every stream in
\* which no brace group stands before the first `in`. On the others the
\* single scan rejects, while the two-phase scan takes everything up to the
\* `in` into the head, brace groups included, and accepts when a brace group
\* whose contents parse follows the `in`: the head is then every token up to
\* that group, the group is the body, and the input after it remains.
C10_EquivalentUnlessBraceBeforeIn ==
    pc = "returned" =>
        LET s == single_scan(new(input), locals.keyword)
            r == ret[1]
        IN
        IF ~BraceBeforeIn(input) THEN SameOutcome(r, s, self.input)
        ELSE LET i == Least(InsOf(input))
                 after == {j \in BracesOf(input) : j > i}
             IN
             /\ ~s.ok
             /\ r.ok <=> (after # {}
                          /\ markups(new(input[Least(after)].stream)).ok)
             /\ r.ok =>
                   LET j == Least(after) IN
                   /\ r.val.special.head = <<locals.keyword>> \o SubSeq(input, 1, j - 1)
                   /\ r.val.special.body.span = input[j].span
                   /\ self.input = SubSeq(input, j + 1, Len(input))

\* a @for whose pattern holds a brace group has been accepted
C10_Witness ==
    /\ pc = "returned" /\ ret[1].ok
    /\ BraceBeforeIn(input)
    /\ \E k \in 1..Len(ret[1].val.special.head) :
          IsGroup(ret[1].val.special.head[k], "Brace")

-----------------------------------------------------------------------------
(* name(), applied to a parser placed where a plain name is expected       *)

MaxNameLen == 4

NameTokens == {Term("a"), Term("b"), Hyphen, Colon, Str}

InitName ==
    /\ input \in Streams(NameTokens, MaxNameLen)
    /\ self = new(input)
    /\ locals = [start |-> input]
    /\ ret = None
    /\ pc = "name"

\* self.name()
Name ==
    /\ pc = "name"
    /\ \E r \in {self_name(self)} :
       /\ ret' = Some([ok |-> r.ok, val |-> r.val, err |-> r.err])
       /\ self' = r.self
    /\ pc' = "returned"
    /\ UNCHANGED <<input, locals>>

NextName == Name

SpecName == InitName /\ [][NextName]_vars

\* s is one identifier followed by zero or more (hyphen, identifier) pairs
IsPlainName(s) ==
    /\ Len(s) % 2 = 1
    /\ \A i \in 1..Len(s) :
          IF i % 2 = 1 THEN IsTerm(s[i]) ELSE IsOp(s[i], "-")

\* C11: every token sequence name() returns is one identifier followed by
\* zero or more (hyphen, identifier) pairs (it starts with an identifier,
\* each hyphen is directly followed by an identifier, it does not end with
\* a hyphen and has no two adjacent hyphens); name() fails with "expected
\* identifier" and consumes nothing when the first token is no identifier.
C11_NameIsIdentThenHyphenIdentPairs ==
    pc = "returned" =>
        /\ ret[1].ok =>
              /\ IsPlainName(ret[1].val)
              /\ input = ret[1].val \o self.input
        /\ (input = <<>> \/ ~IsTerm(Head(input))) =>
              /\ ~ret[1].ok
              /\ ret[1].err = "expected identifier"
              /\ self.input = input

-----------------------------------------------------------------------------
(* The loops of the parser, one iteration at a time                        *)

\* what one pass through a loop did: step is "continue" or "exit" (a break,
\* a return or an Err left through `?`), p the parser after the pass, vec
\* the vector the loop fills, expect_ident the flag of the loop of name()
LoopStep(step, p, vec, expect_ident) ==
    [step |-> step, self |-> p, vec |-> vec, expect_ident |-> expect_ident]

\* markups_iteration that leaves a `;` where it is
markups_iteration_keeps_semicolon(p, result) ==
    LET p2 == peek2(p) IN
    IF p2 = None THEN LoopStep("exit", p, result, FALSE)
    ELSE IF IsOp(p2[1][1], ";") THEN LoopStep("continue", p, result, FALSE)
    ELSE IF IsOp(p2[1][1], "@") /\ p2[1][2] # None /\ IsTermNamed(p2[1][2][1], "let")
    THEN LET r == self_let_expr(advance2(p), p2[1][2][1]) IN
         IF r.ok THEN LoopStep("continue", r.self, Append(result, r.val), FALSE)
         ELSE LoopStep("exit", r.self, result, FALSE)
    ELSE LET r == self_markup(p) IN
         IF r.ok THEN LoopStep("continue", r.self, Append(result, r.val), FALSE)
         ELSE LoopStep("exit", r.self, result, FALSE)

\* Parser::markups, one iteration of its loop
markups_iteration(p, result) ==
    LET p2 == peek2(p) IN
    IF p2 = None THEN LoopStep("exit", p, result, FALSE)
    ELSE IF IsOp(p2[1][1], ";") THEN LoopStep("continue", advance(p), result, FALSE)
    ELSE IF IsOp(p2[1][1], "@") /\ p2[1][2] # None /\ IsTermNamed(p2[1][2][1], "let")
    THEN LET r == self_let_expr(advance2(p), p2[1][2][1]) IN
         IF r.ok THEN LoopStep("continue", r.self, Append(result, r.val), FALSE)
         ELSE LoopStep("exit", r.self, result, FALSE)
    ELSE LET r == self_markup(p) IN
         IF r.ok THEN LoopStep("continue", r.self, Append(result, r.val), FALSE)
         ELSE LoopStep("exit", r.self, result, FALSE)

\* Parser::name, one iteration of its loop
name_iteration(p, result, expect_ident) ==
    LET t == peek(p) IN
    IF t # None /\ IsOp(t[1], "-")
    THEN LoopStep("continue", advance(p), Append(result, t[1]), TRUE)
    ELSE IF t # None /\ IsTerm(t[1]) /\ expect_ident
    THEN LoopStep("continue", advance(p), Append(result, t[1]), FALSE)
    ELSE LoopStep("exit", p, result, expect_ident)

\* Parser::if_expr, one iteration of its loop; the brace group's block is
\* parsed before the loop is left
if_expr_iteration(p, head) ==
    LET n == next(p) IN
    IF n.tok = None THEN LoopStep("exit", n.self, head, FALSE)
    ELSE IF IsGroup(n.tok[1], "Brace")
    THEN LoopStep("exit", self_block(n.self, n.tok[1].stream, n.tok[1].span).self,
                  head, FALSE)
    ELSE LoopStep("continue", n.self, Append(head, n.tok[1]), FALSE)

\* Parser::while_expr, one iteration of its loop
while_expr_iteration(p, head) ==
    LET n == next(p) IN
    IF n.tok = None THEN LoopStep("exit", n.self, head, FALSE)
    ELSE IF IsGroup(n.tok[1], "Brace")
    THEN LoopStep("exit", self_block(n.self, n.tok[1].stream, n.tok[1].span).self,
                  head, FALSE)
    ELSE LoopStep("continue", n.self, Append(head, n.tok[1]), FALSE)

\* Parser::for_expr, one iteration of its first loop
for_expr_iteration1(p, head) ==
    LET n == next(p) IN
    IF n.tok = None THEN LoopStep("exit", n.self, head, FALSE)
    ELSE IF IsTermNamed(n.tok[1], "in")
    THEN LoopStep("exit", n.self, Append(head, n.tok[1]), FALSE)
    ELSE LoopStep("continue", n.self, Append(head, n.tok[1]), FALSE)

\* Parser::for_expr, one iteration of its second loop
for_expr_iteration2(p, head) ==
    LET n == next(p) IN
    IF n.tok = None THEN LoopStep("exit", n.self, head, FALSE)
    ELSE IF IsGroup(n.tok[1], "Brace")
    THEN LoopStep("exit", self_block(n.self, n.tok[1].stream, n.tok[1].span).self,
                  head, FALSE)
    ELSE LoopStep("continue", n.self, Append(head, n.tok[1]), FALSE)

\* Parser::match_expr, one iteration of its loop; the arms of the brace
\* group are parsed by a parser of their own, which leaves this cursor alone
match_expr_iteration(p, head) ==
    LET n == next(p) IN
    IF n.tok = None THEN LoopStep("exit", n.self, head, FALSE)
    ELSE IF IsGroup(n.tok[1], "Brace") THEN LoopStep("exit", n.self, head, FALSE)
    ELSE LoopStep("continue", n.self, Append(head, n.tok[1]), FALSE)

\* Parser::match_arm, one iteration of its first loop
match_arm_iteration(p, head) ==
    LET p2 == peek2(p) IN
    IF p2 = None THEN LoopStep("exit", p, head, FALSE)
    ELSE IF IsJointOp(p2[1][1], "=") /\ p2[1][2] # None /\ IsOp(p2[1][2][1], ">")
    THEN LoopStep("exit", advance2(p), head \o <<p2[1][1], p2[1][2][1]>>, FALSE)
    ELSE LoopStep("continue", advance(p), Append(head, p2[1][1]), FALSE)

\* Parser::match_arm, one iteration of the loop over an expression body
match_arm_expr_iteration(p, body) ==
    LET n == next(p) IN
    IF n.tok = None THEN LoopStep("exit", n.self, body, FALSE)
    ELSE IF IsOp(n.tok[1], ",") THEN LoopStep("exit", n.self, body, FALSE)
    ELSE LoopStep("continue", n.self, Append(body, n.tok[1]), FALSE)

\* Parser::let_expr, one iteration of its first loop
let_expr_iteration1(p, tokens) ==
    LET n == next(p) IN
    IF n.tok = None THEN LoopStep("exit", n.self, tokens, FALSE)
    ELSE IF IsOp(n.tok[1], "=")
    THEN LoopStep("exit", n.self, Append(tokens, n.tok[1]), FALSE)
    ELSE LoopStep("continue", n.self, Append(tokens, n.tok[1]), FALSE)

\* Parser::let_expr, one iteration of its second loop
let_expr_iteration2(p, tokens) ==
    LET n == next(p) IN
    IF n.tok = None THEN LoopStep("exit", n.self, tokens, FALSE)
    ELSE IF IsOp(n.tok[1], ";")
    THEN LoopStep("exit", n.self, Append(tokens, n.tok[1]), FALSE)
    ELSE LoopStep("continue", n.self, Append(tokens, n.tok[1]), FALSE)

MaxLoopLen == 4

\* the loops of the parser
Loops == {"markups", "attrs", "name", "if_expr", "while_expr", "for_expr 1",
          "for_expr 2", "match_expr", "match_arms", "match_arm", "match_arm expr",
          "let_expr 1", "let_expr 2"}

\* the tokens that matter to each loop
LoopTokens(loop) ==
    CASE loop = "markups" ->
            {At, Term("let"), Eq, Semi, Str, Brace(<<Semi, Str>>)}
      [] loop = "attrs" -> {Term("a"), Eq, Dot, Hyphen, Colon, Str}
      [] loop = "name" -> {Term("a"), Hyphen, Dot}
      [] loop \in {"if_expr", "while_expr", "match_expr"} ->
            {Term("c"), Eq, Brace(<<Str>>), Brace(<<Num>>)}
      [] loop \in {"for_expr 1", "for_expr 2"} ->
            {Term("x"), Term("in"), Brace(<<Str>>)}
      [] loop \in {"match_arm", "match_arms"} ->
            {Term("x"), EqJoint, Gt, Comma, Str, Brace(<<Str>>)}
      [] loop = "match_arm expr" -> {Term("x"), Comma, Str}
      [] loop \in {"let_expr 1", "let_expr 2"} -> {Term("x"), Eq, Semi}

\* any loop, entered with its parser at any stream; `locals` keeps the
\* loop's vector, the flag of the loop of name(), and the passes made
InitLoops ==
    /\ pc \in Loops
    /\ input \in Streams(LoopTokens(pc), MaxLoopLen)
    /\ self = new(input)
    /\ locals = [loop |-> pc, vec |-> IF pc = "attrs" THEN NoAttrs ELSE <<>>,
                 expect_ident |-> FALSE, passes |-> 0]
    /\ ret = None

\* the state after the pass `it` through the loop at pc
Pass(it) ==
    /\ locals.passes <= MaxLoopLen + 1
    /\ self' = it.self
    /\ locals' = [locals EXCEPT !.vec = it.vec, !.expect_ident = it.expect_ident,
                                !.passes = @ + 1]
    /\ pc' = IF it.step = "continue" THEN pc ELSE "returned"
    /\ ret' = IF it.step = "continue" THEN ret ELSE Some(it.vec)
    /\ UNCHANGED input

MarkupsIteration ==
    pc = "markups" /\ \E it \in {markups_iteration(self, locals.vec)} : Pass(it)

\* one pass through the loop of attrs(): it goes on after "continue"
AttrsPass ==
    /\ pc = "attrs"
    /\ \E it \in {self_attrs_iteration(self, locals.vec)} :
          Pass(LoopStep(IF it.step = "continue" THEN "continue" ELSE "exit",
                        it.self, it.acc, FALSE))

NameIteration ==
    /\ pc = "name"
    /\ \E it \in {name_iteration(self, locals.vec, locals.expect_ident)} : Pass(it)

IfExprIteration ==
    pc = "if_expr" /\ \E it \in {if_expr_iteration(self, locals.vec)} : Pass(it)

WhileExprIteration ==
    pc = "while_expr" /\ \E it \in {while_expr_iteration(self, locals.vec)} : Pass(it)

ForExprIteration1 ==
    pc = "for_expr 1" /\ \E it \in {for_expr_iteration1(self, locals.vec)} : Pass(it)

ForExprIteration2 ==
    pc = "for_expr 2" /\ \E it \in {for_expr_iteration2(self, locals.vec)} : Pass(it)

MatchExprIteration ==
    pc = "match_expr" /\ \E it \in {match_expr_iteration(self, locals.vec)} : Pass(it)

\* one pass through `while let Some(arm) = self.match_arm()?`
MatchArmsPass ==
    /\ pc = "match_arms"
    /\ \E r \in {self_match_arm(self)} :
          Pass(IF r.ok /\ r.val # None
               THEN LoopStep("continue", r.self, Append(locals.vec, r.val[1]), FALSE)
               ELSE LoopStep("exit", r.self, locals.vec, FALSE))

MatchArmIteration ==
    pc = "match_arm" /\ \E it \in {match_arm_iteration(self, locals.vec)} : Pass(it)

MatchArmExprIteration ==
    /\ pc = "match_arm expr"
    /\ \E it \in {match_arm_expr_iteration(self, locals.vec)} : Pass(it)

LetExprIteration1 ==
    pc = "let_expr 1" /\ \E it \in {let_expr_iteration1(self, locals.vec)} : Pass(it)

LetExprIteration2 ==
    pc = "let_expr 2" /\ \E it \in {let_expr_iteration2(self, locals.vec)} : Pass(it)

NextLoops ==
    \/ MarkupsIteration
    \/ AttrsPass
    \/ NameIteration
    \/ IfExprIteration
    \/ WhileExprIteration
    \/ ForExprIteration1
    \/ ForExprIteration2
    \/ MatchExprIteration
    \/ MatchArmsPass
    \/ MatchArmIteration
    \/ MatchArmExprIteration
    \/ LetExprIteration1
    \/ LetExprIteration2

SpecLoops == InitLoops /\ [][NextLoops]_vars

\* a pass that does not leave its loop consumed at least one token
PassConsumes == pc' # "returned" => Len(self'.input) < Len(self.input)

\* C12: every pass through the markup-sequence loop, the attributes loop,
\* the name loop and each head-accumulation loop either consumes at least
\* one token from its cursor or leaves the loop (an attempt of attrs() that
\* is not committed leaves it), so a loop entered at a stream of n tokens
\* is left after at most n + 1 passes.
C12_EveryLoopProgresses ==
    [][PassConsumes]_vars /\ [](locals.passes <= Len(input) + 1)

\* the markup-sequence loop has been left after four passes that consumed
\* a token each
C12_Witness ==
    /\ pc = "returned" /\ locals.loop = "markups"
    /\ locals.passes = 5 /\ self.input = <<>>

=============================================================================
